---- MODULE Spec2Model ----
(***************************************************************************)
(* Model of ldk-server-cli/src/types.rs: the CLI wrappers that turn API    *)
(* responses into their display form.  Every conversion of the file is a   *)
(* pure function; the state holds one call: the conversion, the value it   *)
(* consumes and, once it has run, the value it produced.                   *)
(*                                                                         *)
(* Representation.  Option<T> is a record with an is_some flag.  A String  *)
(* that the code builds (hex text, page token) is a sequence of one-       *)
(* character strings; a String the code only moves is an atomic string.    *)
(* A serialized JSON object is a function from the keys it holds to their  *)
(* values, so an omitted key is a key outside its DOMAIN.                  *)
(***************************************************************************)
EXTENDS Integers, Sequences, FiniteSets, TLC

VARIABLES pc, fn, arg, res

vars == <<pc, fn, arg, res>>

(***************************************************************************)
(* Bounds of the model.                                                    *)
(***************************************************************************)
MaxBytesLen == 2
MaxTokenLen == 2
MaxIndex == 11
MaxListLen == 2

(***************************************************************************)
(* Option<T>.                                                              *)
(***************************************************************************)
None == [is_some |-> FALSE]

Some(v) == [is_some |-> TRUE, value |-> v]

SeqsUpTo(S, n) == UNION {[1..k -> S] : k \in 0..n}

(***************************************************************************)
(* CliBytes: bytes rendered by hex_conservative's as_hex (lowercase, two   *)
(* digits per byte, high nibble first).                                    *)
(***************************************************************************)
HexChars ==
    <<"0", "1", "2", "3", "4", "5", "6", "7",
      "8", "9", "a", "b", "c", "d", "e", "f">>

\* Faulty variant: uppercase digits.
UpperHexByte(b) ==
    LET up == <<"0", "1", "2", "3", "4", "5", "6", "7",
                "8", "9", "A", "B", "C", "D", "E", "F">>
    IN  <<up[(b \div 16) + 1], up[(b % 16) + 1]>>

LowerHexByte(b) == <<HexChars[(b \div 16) + 1], HexChars[(b % 16) + 1]>>

RECURSIVE as_hex(_)
as_hex(bytes) ==
    IF bytes = <<>> THEN <<>>
    ELSE LowerHexByte(Head(bytes)) \o as_hex(Tail(bytes))

CliBytesFrom(bytes) == as_hex(bytes)

(***************************************************************************)
(* Page tokens: format!("{}:{}", token.token, token.index), the index an   *)
(* i64 written by its Display impl.                                        *)
(***************************************************************************)
DecChars == <<"0", "1", "2", "3", "4", "5", "6", "7", "8", "9">>

RECURSIVE DisplayU64(_)
DisplayU64(n) ==
    IF n < 10 THEN <<DecChars[n + 1]>>
    ELSE DisplayU64(n \div 10) \o <<DecChars[(n % 10) + 1]>>

DisplayI64(n) == IF n < 0 THEN <<"-">> \o DisplayU64(-n) ELSE DisplayU64(n)

\* Faulty variant: the separator is left out.
format_page_token_nosep(token) == token.token \o DisplayI64(token.index)

format_page_token(token) == token.token \o <<":">> \o DisplayI64(token.index)

\* Faulty variant: an absent cursor becomes an empty token.
CliPaginatedResponseNew_EmptyForNone(list, next_page_token) ==
    [list |-> list,
     next_page_token |->
        IF next_page_token.is_some
        THEN Some(format_page_token(next_page_token.value))
        ELSE Some(<<>>)]

CliPaginatedResponseNew(list, next_page_token) ==
    [list |-> list,
     next_page_token |->
        IF next_page_token.is_some
        THEN Some(format_page_token(next_page_token.value))
        ELSE None]

\* secret.map(Into::into)
SecretMap(secret) ==
    IF secret.is_some THEN Some(CliBytesFrom(secret.value)) ELSE None

(***************************************************************************)
(* The payment kinds.  A payment_kind::Kind is a record of its tag and its *)
(* body; PaymentKind wraps an optional Kind.                               *)
(***************************************************************************)
\* Faulty variant: an absent secret is encoded as no bytes.
CliBolt11From_SecretDefault(bolt11) ==
    [hash |-> bolt11.hash,
     preimage |-> bolt11.preimage,
     secret |-> Some(CliBytesFrom(IF bolt11.secret.is_some
                                  THEN bolt11.secret.value ELSE <<>>))]

CliBolt11From(bolt11) ==
    [hash |-> bolt11.hash,
     preimage |-> bolt11.preimage,
     secret |-> SecretMap(bolt11.secret)]

CliBolt11JitFrom(jit) ==
    [hash |-> jit.hash,
     preimage |-> jit.preimage,
     secret |-> SecretMap(jit.secret),
     lsp_fee_limits |-> jit.lsp_fee_limits,
     counterparty_skimmed_fee_msat |-> jit.counterparty_skimmed_fee_msat]

CliBolt12OfferFrom(offer) ==
    [hash |-> offer.hash,
     preimage |-> offer.preimage,
     secret |-> SecretMap(offer.secret),
     offer_id |-> offer.offer_id,
     payer_note |-> offer.payer_note,
     quantity |-> offer.quantity]

\* Faulty variant: a refund is built with the fields of an offer.
CliBolt12RefundFrom_AsOffer(refund) ==
    [hash |-> refund.hash,
     preimage |-> refund.preimage,
     secret |-> SecretMap(refund.secret),
     offer_id |-> "",
     payer_note |-> refund.payer_note,
     quantity |-> refund.quantity]

CliBolt12RefundFrom(refund) ==
    [hash |-> refund.hash,
     preimage |-> refund.preimage,
     secret |-> SecretMap(refund.secret),
     payer_note |-> refund.payer_note,
     quantity |-> refund.quantity]

CliSpontaneousFrom(spontaneous) ==
    [hash |-> spontaneous.hash, preimage |-> spontaneous.preimage]

MatchKind(inner) ==
    CASE inner.tag = "Onchain" ->
            [tag |-> "Onchain", body |-> inner.body]
      [] inner.tag = "Bolt11" ->
            [tag |-> "Bolt11", body |-> CliBolt11From(inner.body)]
      [] inner.tag = "Bolt11Jit" ->
            [tag |-> "Bolt11Jit", body |-> CliBolt11JitFrom(inner.body)]
      [] inner.tag = "Bolt12Offer" ->
            [tag |-> "Bolt12Offer", body |-> CliBolt12OfferFrom(inner.body)]
      [] inner.tag = "Bolt12Refund" ->
            [tag |-> "Bolt12Refund", body |-> CliBolt12RefundFrom(inner.body)]
      [] inner.tag = "Spontaneous" ->
            [tag |-> "Spontaneous", body |-> CliSpontaneousFrom(inner.body)]

\* Faulty variant: an unset inner tag is unwrapped instead of mapped.
Panicked == [panicked |-> TRUE]

from_payment_kind_unwrap(kind) ==
    IF ~kind.is_some THEN None
    ELSE IF ~kind.value.kind.is_some THEN Panicked
    ELSE Some(MatchKind(kind.value.kind.value))

from_payment_kind(kind) ==
    IF kind.is_some
    THEN IF kind.value.kind.is_some
         THEN Some(MatchKind(kind.value.kind.value))
         ELSE None
    ELSE None

(***************************************************************************)
(* The enumerations of the protocol schema and their prost accessors: an   *)
(* i32 code that names no variant reads as the default variant.            *)
(***************************************************************************)
PaymentDirectionNames == <<"INBOUND", "OUTBOUND">>

PaymentStatusNames == <<"PENDING", "SUCCEEDED", "FAILED">>

PaymentDirectionOf(code) ==
    IF code \in 0..(Len(PaymentDirectionNames) - 1) THEN code ELSE 0

PaymentStatusOf(code) ==
    IF code \in 0..(Len(PaymentStatusNames) - 1) THEN code ELSE 0

direction_as_str_name(payment) ==
    PaymentDirectionNames[PaymentDirectionOf(payment.direction) + 1]

status_as_str_name(payment) ==
    PaymentStatusNames[PaymentStatusOf(payment.status) + 1]

(***************************************************************************)
(* CliPayment and the response wrappers.                                   *)
(***************************************************************************)
\* Faulty variant: direction and status are read from each other's code.
CliPaymentFrom_NamesSwapped(payment) ==
    LET direction == status_as_str_name(payment)
        status == direction_as_str_name(payment)
    IN  [id |-> payment.id,
         kind |-> from_payment_kind(payment.kind),
         amount_msat |-> payment.amount_msat,
         fee_paid_msat |-> payment.fee_paid_msat,
         direction |-> direction,
         status |-> status,
         latest_update_timestamp |-> payment.latest_update_timestamp]

CliPaymentFrom(payment) ==
    LET direction == direction_as_str_name(payment)
        status == status_as_str_name(payment)
    IN  [id |-> payment.id,
         kind |-> from_payment_kind(payment.kind),
         amount_msat |-> payment.amount_msat,
         fee_paid_msat |-> payment.fee_paid_msat,
         direction |-> direction,
         status |-> status,
         latest_update_timestamp |-> payment.latest_update_timestamp]

\* list.into_iter().map(Into::into).collect()
RECURSIVE MapCliPaymentFrom(_)
MapCliPaymentFrom(list) ==
    IF list = <<>> THEN <<>>
    ELSE <<CliPaymentFrom(Head(list))>> \o MapCliPaymentFrom(Tail(list))

\* Faulty variant: the items are collected in reverse.
RECURSIVE Reversed(_)
Reversed(list) ==
    IF list = <<>> THEN <<>> ELSE Reversed(Tail(list)) \o <<Head(list)>>

CliListPaymentsResponseFrom_Reversed(response) ==
    CliPaginatedResponseNew(Reversed(MapCliPaymentFrom(response.payments)),
                            response.next_page_token)

CliListPaymentsResponseFrom(response) ==
    CliPaginatedResponseNew(MapCliPaymentFrom(response.payments),
                            response.next_page_token)

\* Faulty variant: the token is formatted a second time.
CliPaginatedPaymentsInto_Reformat(response) ==
    [list |-> MapCliPaymentFrom(response.list),
     next_page_token |->
        IF response.next_page_token.is_some
        THEN Some(format_page_token([token |-> response.next_page_token.value,
                                     index |-> 0]))
        ELSE None]

CliPaginatedPaymentsInto(response) ==
    [list |-> MapCliPaymentFrom(response.list),
     next_page_token |-> response.next_page_token]

\* Faulty variant: a missing payment becomes a default one.
DefaultPayment ==
    [id |-> "", kind |-> None, amount_msat |-> None, fee_paid_msat |-> None,
     direction |-> 0, status |-> 0, latest_update_timestamp |-> 0]

CliGetPaymentDetailsResponseFrom_Default(response) ==
    [payment |-> Some(CliPaymentFrom(IF response.payment.is_some
                                     THEN response.payment.value
                                     ELSE DefaultPayment))]

CliGetPaymentDetailsResponseFrom(response) ==
    [payment |->
        IF response.payment.is_some
        THEN Some(CliPaymentFrom(response.payment.value))
        ELSE None]

(***************************************************************************)
(* Serialization as derived by serde: a field marked                       *)
(* skip_serializing_if = "Option::is_none" is written only when it is      *)
(* Some; CliBytes is transparent; CliPaymentKind is an externally tagged   *)
(* enum with snake_case variant names.                                     *)
(***************************************************************************)
Field(key, value) == key :> value

SkipNoneField(key, o) == IF o.is_some THEN key :> o.value ELSE <<>>

SerCliBolt11(b) ==
    Field("hash", b.hash)
    @@ SkipNoneField("preimage", b.preimage)
    @@ SkipNoneField("secret", b.secret)

SerCliBolt11Jit(j) ==
    Field("hash", j.hash)
    @@ SkipNoneField("preimage", j.preimage)
    @@ SkipNoneField("secret", j.secret)
    @@ SkipNoneField("lsp_fee_limits", j.lsp_fee_limits)
    @@ SkipNoneField("counterparty_skimmed_fee_msat",
                     j.counterparty_skimmed_fee_msat)

SerCliBolt12Offer(o) ==
    SkipNoneField("hash", o.hash)
    @@ SkipNoneField("preimage", o.preimage)
    @@ SkipNoneField("secret", o.secret)
    @@ Field("offer_id", o.offer_id)
    @@ SkipNoneField("payer_note", o.payer_note)
    @@ SkipNoneField("quantity", o.quantity)

SerCliBolt12Refund(r) ==
    SkipNoneField("hash", r.hash)
    @@ SkipNoneField("preimage", r.preimage)
    @@ SkipNoneField("secret", r.secret)
    @@ SkipNoneField("payer_note", r.payer_note)
    @@ SkipNoneField("quantity", r.quantity)

SerCliSpontaneous(s) ==
    Field("hash", s.hash) @@ SkipNoneField("preimage", s.preimage)

SerCliPaymentKind(k) ==
    CASE k.tag = "Onchain" -> Field("onchain", k.body)
      [] k.tag = "Bolt11" -> Field("bolt11", SerCliBolt11(k.body))
      [] k.tag = "Bolt11Jit" -> Field("bolt11_jit", SerCliBolt11Jit(k.body))
      [] k.tag = "Bolt12Offer" ->
            Field("bolt12_offer", SerCliBolt12Offer(k.body))
      [] k.tag = "Bolt12Refund" ->
            Field("bolt12_refund", SerCliBolt12Refund(k.body))
      [] k.tag = "Spontaneous" ->
            Field("spontaneous", SerCliSpontaneous(k.body))

SerCliPayment(p) ==
    Field("id", p.id)
    @@ (IF p.kind.is_some
        THEN Field("kind", SerCliPaymentKind(p.kind.value))
        ELSE <<>>)
    @@ SkipNoneField("amount_msat", p.amount_msat)
    @@ SkipNoneField("fee_paid_msat", p.fee_paid_msat)
    @@ Field("direction", p.direction)
    @@ Field("status", p.status)
    @@ Field("latest_update_timestamp", p.latest_update_timestamp)

\* items: the serialized items of r.list.
SerCliPaginatedResponse(r, items) ==
    Field("list", items)
    @@ SkipNoneField("next_page_token", r.next_page_token)

SerCliGetPaymentDetailsResponse(r) ==
    IF r.payment.is_some
    THEN Field("payment", SerCliPayment(r.payment.value))
    ELSE <<>>

(***************************************************************************)
(* Inputs.                                                                 *)
(***************************************************************************)
Byte == 0..255

ByteSample == {0, 10, 173, 222, 255}

BytesInputs == SeqsUpTo(ByteSample, MaxBytesLen) \cup {<<b>> : b \in Byte}

TokenChars == {"x", ":", "1"}

Tokens == SeqsUpTo(TokenChars, MaxTokenLen)

Indexes == (0 - MaxIndex)..MaxIndex

PageTokens == [token : Tokens, index : Indexes]

OptPageTokens == {None} \cup {Some(t) : t \in PageTokens}

ForwardedPayments == {[forwarded |-> "f1"], [forwarded |-> "f2"]}

ForwardedLists == SeqsUpTo(ForwardedPayments, MaxListLen)

OptOf(S) == {None} \cup {Some(v) : v \in S}

Secrets == OptOf({<<>>, <<222, 173>>})

LspFeeLimits ==
    [max_total_opening_fee_msat |-> Some(21), max_proportional_opening_fee_ppm_msat |-> None]

Kinds ==
    {[tag |-> "Onchain", body |-> [txid |-> "tx", status |-> None]]}
    \cup {[tag |-> "Bolt11", body |-> b] :
            b \in [hash : {"abc"}, preimage : OptOf({"pre"}), secret : Secrets]}
    \cup {[tag |-> "Bolt11Jit", body |-> b] :
            b \in [hash : {"abc"}, preimage : OptOf({"pre"}), secret : Secrets,
                   lsp_fee_limits : OptOf({LspFeeLimits}),
                   counterparty_skimmed_fee_msat : OptOf({3})]}
    \cup {[tag |-> "Bolt12Offer", body |-> b] :
            b \in [hash : OptOf({"abc"}), preimage : OptOf({"pre"}),
                   secret : Secrets, offer_id : {"offer"},
                   payer_note : OptOf({"note"}), quantity : OptOf({2})]}
    \cup {[tag |-> "Bolt12Refund", body |-> b] :
            b \in [hash : OptOf({"abc"}), preimage : OptOf({"pre"}),
                   secret : Secrets,
                   payer_note : OptOf({"note"}), quantity : OptOf({2})]}
    \cup {[tag |-> "Spontaneous", body |-> b] :
            b \in [hash : {"abc"}, preimage : OptOf({"pre"})]}

PaymentKinds == OptOf({[kind |-> k] : k \in OptOf(Kinds)})

DirectionCodes == 0..2

StatusCodes == 0..3

Payments ==
    [id : {"p1"}, kind : PaymentKinds, amount_msat : OptOf({1000}),
     fee_paid_msat : OptOf({7}), direction : DirectionCodes,
     status : StatusCodes, latest_update_timestamp : {1700}]

Bolt11Scenario ==
    [id |-> "p1",
     kind |-> Some([kind |-> Some([tag |-> "Bolt11",
                                   body |-> [hash |-> "abc", preimage |-> None,
                                             secret |-> Some(<<222, 173>>)]])]),
     amount_msat |-> Some(1000), fee_paid_msat |-> None,
     direction |-> 1, status |-> 1, latest_update_timestamp |-> 1700]

PaymentSample ==
    {Bolt11Scenario,
     [Bolt11Scenario EXCEPT !.id = "p2", !.kind = None, !.status = 0],
     [Bolt11Scenario EXCEPT
        !.id = "p3", !.direction = 0,
        !.kind = Some([kind |-> Some([tag |-> "Spontaneous",
                                      body |-> [hash |-> "abc",
                                                preimage |-> Some("pre")]])])],
     [Bolt11Scenario EXCEPT !.id = "p4", !.kind = Some([kind |-> None]),
                            !.status = 2, !.amount_msat = None]}

PaymentLists == SeqsUpTo(PaymentSample, MaxListLen)

(***************************************************************************)
(* A call is drawn in the initial state (pc = "call": the function fn and  *)
(* its argument arg); the action of that function runs it to completion    *)
(* (pc = "done", res its result).                                          *)
(***************************************************************************)
Init ==
    /\ pc = "call"
    /\ res = None
    /\ \/ fn = "CliBytes::from" /\ arg \in BytesInputs
       \/ /\ fn = "CliListForwardedPaymentsResponse::new"
          /\ arg \in [list : ForwardedLists, next_page_token : OptPageTokens]
       \/ /\ fn = "CliPaginatedResponse<Payment>::new"
          /\ arg \in [list : PaymentLists, next_page_token : OptPageTokens]
       \/ /\ fn = "CliListPaymentsResponse::from"
          /\ arg \in [payments : PaymentLists, next_page_token : OptPageTokens]
       \/ fn = "CliPayment::from" /\ arg \in Payments
       \/ /\ fn = "CliGetPaymentDetailsResponse::from"
          /\ arg \in [payment : OptOf(Payments)]

Return(result) ==
    /\ res' = result
    /\ pc' = "done"
    /\ UNCHANGED <<fn, arg>>

DoCliBytesFrom ==
    /\ pc = "call" /\ fn = "CliBytes::from"
    /\ Return(CliBytesFrom(arg))

DoNewForwarded ==
    /\ pc = "call" /\ fn = "CliListForwardedPaymentsResponse::new"
    /\ Return(CliPaginatedResponseNew(arg.list, arg.next_page_token))

DoNewPayments ==
    /\ pc = "call" /\ fn = "CliPaginatedResponse<Payment>::new"
    /\ Return(CliPaginatedResponseNew(arg.list, arg.next_page_token))

\* The paginated response of raw payments is then converted into the one of
\* CliPayments: the second step of the same call chain.
DoPaginatedPaymentsInto ==
    /\ pc = "done" /\ fn = "CliPaginatedResponse<Payment>::new"
    /\ res' = CliPaginatedPaymentsInto(res)
    /\ fn' = "CliPaginatedResponse<Payment>::into"
    /\ UNCHANGED <<pc, arg>>

DoListPaymentsResponseFrom ==
    /\ pc = "call" /\ fn = "CliListPaymentsResponse::from"
    /\ Return(CliListPaymentsResponseFrom(arg))

DoCliPaymentFrom ==
    /\ pc = "call" /\ fn = "CliPayment::from"
    /\ Return(CliPaymentFrom(arg))

DoGetPaymentDetailsResponseFrom ==
    /\ pc = "call" /\ fn = "CliGetPaymentDetailsResponse::from"
    /\ Return(CliGetPaymentDetailsResponseFrom(arg))

Next ==
    \/ DoCliBytesFrom
    \/ DoNewForwarded
    \/ DoNewPayments
    \/ DoPaginatedPaymentsInto
    \/ DoListPaymentsResponseFrom
    \/ DoCliPaymentFrom
    \/ DoGetPaymentDetailsResponseFrom

Spec == Init /\ [][Next]_vars

(***************************************************************************)
(* Vocabulary of the properties: the readers of the text the conversions   *)
(* write (what a consumer of the output does with it).                     *)
(***************************************************************************)
Done(f) == pc = "done" /\ fn = f

LowerHexDigits ==
    {"0", "1", "2", "3", "4", "5", "6", "7",
     "8", "9", "a", "b", "c", "d", "e", "f"}

HexValue ==
    ("0" :> 0) @@ ("1" :> 1) @@ ("2" :> 2) @@ ("3" :> 3) @@ ("4" :> 4)
    @@ ("5" :> 5) @@ ("6" :> 6) @@ ("7" :> 7) @@ ("8" :> 8) @@ ("9" :> 9)
    @@ ("a" :> 10) @@ ("b" :> 11) @@ ("c" :> 12) @@ ("d" :> 13)
    @@ ("e" :> 14) @@ ("f" :> 15)

\* s is the lowercase hex text of bytes: two digits per byte, high first.
IsHexOf(s, bytes) ==
    /\ Len(s) = 2 * Len(bytes)
    /\ \A i \in 1..Len(s) : s[i] \in LowerHexDigits
    /\ \A i \in 1..Len(bytes) :
          /\ HexValue[s[2 * i - 1]] = bytes[i] \div 16
          /\ HexValue[s[2 * i]] = bytes[i] % 16

DecDigits == {"0", "1", "2", "3", "4", "5", "6", "7", "8", "9"}

RECURSIVE DecimalNat(_)
DecimalNat(d) ==
    IF d = <<>> THEN 0
    ELSE 10 * DecimalNat(SubSeq(d, 1, Len(d) - 1)) + HexValue[d[Len(d)]]

\* d is the decimal text of an integer: digits, no sign but a leading '-'
\* for a negative number, no leading zero, no blank.
IsDecimalOf(d, n) ==
    LET digits == IF d # <<>> /\ d[1] = "-" THEN Tail(d) ELSE d
    IN  /\ digits # <<>>
        /\ \A i \in 1..Len(digits) : digits[i] \in DecDigits
        /\ digits[1] = "0" => (Len(digits) = 1 /\ digits = d)
        /\ n = IF digits = d THEN DecimalNat(digits)
               ELSE 0 - DecimalNat(digits)

\* s is exactly token, one colon, the decimal text of index.
IsTokenColonIndex(s, token, index) ==
    LET n == Len(token)
    IN  /\ Len(s) >= n + 2
        /\ SubSeq(s, 1, n) = token
        /\ s[n + 1] = ":"
        /\ IsDecimalOf(SubSeq(s, n + 2, Len(s)), index)

NewFns ==
    {"CliListForwardedPaymentsResponse::new",
     "CliPaginatedResponse<Payment>::new"}

PageFieldOf(r) == SerCliPaginatedResponse(r, r.list)

\* C1: CliBytes::from(B) is a string of 2 * len(B) characters, all in
\* [0-9a-f], characters 2i and 2i+1 the high and low hex digit of byte i.
C1_HexEncoding == Done("CliBytes::from") => IsHexOf(res, arg)

C1_Witness ==
    /\ Done("CliBytes::from")
    /\ arg = <<222, 173>>
    /\ res = <<"d", "e", "a", "d">>

\* C2: CliPaginatedResponse::new gives next_page_token = "<token>:<index>"
\* exactly when the cursor is present, and an absent (omitted) field when it
\* is absent: never a present empty string, never an absent field for a
\* present cursor.
C2_PageTokenField ==
    (pc = "done" /\ fn \in NewFns) =>
        /\ res.list = arg.list
        /\ res.next_page_token.is_some = arg.next_page_token.is_some
        /\ ("next_page_token" \in DOMAIN PageFieldOf(res))
              = arg.next_page_token.is_some
        /\ arg.next_page_token.is_some =>
              /\ IsTokenColonIndex(res.next_page_token.value,
                                   arg.next_page_token.value.token,
                                   arg.next_page_token.value.index)
              /\ PageFieldOf(res)["next_page_token"]
                    = res.next_page_token.value

C2_Witness ==
    /\ pc = "done" /\ fn \in NewFns
    /\ arg.next_page_token = Some([token |-> <<>>, index |-> 0])
    /\ res.next_page_token = Some(<<":", "0">>)

\* C3: converting a ListPaymentsResponse keeps the server order: as many
\* items as payments, the i-th item the normalization of the i-th payment.
C3_ListOrder ==
    Done("CliListPaymentsResponse::from") =>
        /\ Len(res.list) = Len(arg.payments)
        /\ \A i \in 1..Len(arg.payments) :
              /\ res.list[i].id = arg.payments[i].id
              /\ res.list[i] = CliPaymentFrom(arg.payments[i])

C3_Witness ==
    /\ Done("CliListPaymentsResponse::from")
    /\ Len(arg.payments) = 2
    /\ arg.payments[1].id = "p3" /\ arg.payments[2].id = "p1"
    /\ res.list[1].id = "p3" /\ res.list[2].id = "p1"

CliPaymentFields ==
    {"id", "kind", "amount_msat", "fee_paid_msat", "direction", "status",
     "latest_update_timestamp"}

HasNoKind(payment) ==
    ~payment.kind.is_some \/ ~payment.kind.value.kind.is_some

\* C4: the kind of the normalized payment is absent exactly when the input
\* has no payment-kind record or one whose inner tag is unset; the conversion
\* then still yields a payment, with every other field.
C4_KindAbsence ==
    Done("CliPayment::from") =>
        /\ DOMAIN res = CliPaymentFields
        /\ (res.kind = None) = HasNoKind(arg)
        /\ ("kind" \notin DOMAIN SerCliPayment(res)) = HasNoKind(arg)
        /\ HasNoKind(arg) =>
              /\ res.id = arg.id
              /\ res.amount_msat = arg.amount_msat
              /\ res.fee_paid_msat = arg.fee_paid_msat
              /\ res.latest_update_timestamp = arg.latest_update_timestamp
              /\ {"id", "direction", "status", "latest_update_timestamp"}
                    \subseteq DOMAIN SerCliPayment(res)

C4_Witness ==
    /\ Done("CliPayment::from")
    /\ arg.kind = Some([kind |-> None])
    /\ res.kind = None
    /\ res.id = "p1"

\* The fields each kind defines (its secret apart), and the key of the kind
\* in the output.
PlainFieldsOf(tag) ==
    CASE tag = "Onchain" -> {"txid", "status"}
      [] tag = "Bolt11" -> {"hash", "preimage"}
      [] tag = "Bolt11Jit" ->
            {"hash", "preimage", "lsp_fee_limits",
             "counterparty_skimmed_fee_msat"}
      [] tag = "Bolt12Offer" ->
            {"hash", "preimage", "offer_id", "payer_note", "quantity"}
      [] tag = "Bolt12Refund" -> {"hash", "preimage", "payer_note", "quantity"}
      [] tag = "Spontaneous" -> {"hash", "preimage"}

HasSecretField(tag) ==
    tag \in {"Bolt11", "Bolt11Jit", "Bolt12Offer", "Bolt12Refund"}

FieldsOf(tag) ==
    PlainFieldsOf(tag) \cup (IF HasSecretField(tag) THEN {"secret"} ELSE {})

KeyOf(tag) ==
    CASE tag = "Onchain" -> "onchain"
      [] tag = "Bolt11" -> "bolt11"
      [] tag = "Bolt11Jit" -> "bolt11_jit"
      [] tag = "Bolt12Offer" -> "bolt12_offer"
      [] tag = "Bolt12Refund" -> "bolt12_refund"
      [] tag = "Spontaneous" -> "spontaneous"

SecretIsHexOf(out, in) ==
    /\ out.is_some = in.is_some
    /\ in.is_some => IsHexOf(out.value, in.value)

\* C5: each of the six kinds normalizes to the variant of the same tag, with
\* every field of that kind at the input's value (the secret hex encoded) and
\* no field of another kind.
C5_KindFields ==
    (Done("CliPayment::from") /\ ~HasNoKind(arg)) =>
        LET in == arg.kind.value.kind.value
            out == res.kind.value
            ser == SerCliPaymentKind(out)
        IN  /\ out.tag = in.tag
            /\ DOMAIN in.body = FieldsOf(in.tag)
            /\ DOMAIN out.body = FieldsOf(in.tag)
            /\ \A f \in PlainFieldsOf(in.tag) : out.body[f] = in.body[f]
            /\ HasSecretField(in.tag) =>
                  SecretIsHexOf(out.body.secret, in.body.secret)
            /\ DOMAIN ser = {KeyOf(in.tag)}
            /\ in.tag # "Onchain" =>
                  DOMAIN ser[KeyOf(in.tag)] \subseteq FieldsOf(in.tag)

C5_Witness ==
    /\ Done("CliPayment::from")
    /\ ~HasNoKind(arg)
    /\ arg.kind.value.kind.value.tag = "Bolt12Refund"
    /\ arg.kind.value.kind.value.body.secret = Some(<<222, 173>>)
    /\ res.kind.value.tag = "Bolt12Refund"
    /\ "offer_id" \notin DOMAIN res.kind.value.body
    /\ res.kind.value.body.secret = Some(<<"d", "e", "a", "d">>)

OptionalFieldsOf(tag) ==
    CASE tag = "Onchain" -> {}
      [] tag = "Bolt11" -> {"preimage", "secret"}
      [] tag = "Bolt11Jit" ->
            {"preimage", "secret", "lsp_fee_limits",
             "counterparty_skimmed_fee_msat"}
      [] tag = "Bolt12Offer" ->
            {"hash", "preimage", "secret", "payer_note", "quantity"}
      [] tag = "Bolt12Refund" ->
            {"hash", "preimage", "secret", "payer_note", "quantity"}
      [] tag = "Spontaneous" -> {"preimage"}

\* C6: an optional field without a value in the input is omitted on output
\* (no key, hence neither an empty string nor a null); a secret is output
\* only when the input has one, and then as the hex text of its bytes.
C6_OptionalOmitted ==
    Done("CliPayment::from") =>
        LET ser == SerCliPayment(res)
        IN  /\ \A f \in {"amount_msat", "fee_paid_msat"} :
                  /\ res[f] = arg[f]
                  /\ (f \in DOMAIN ser) = arg[f].is_some
            /\ ~HasNoKind(arg) =>
                  LET in == arg.kind.value.kind.value
                      out == res.kind.value
                      body == ser["kind"][KeyOf(in.tag)]
                  IN  /\ \A f \in OptionalFieldsOf(in.tag) :
                            /\ out.body[f].is_some = in.body[f].is_some
                            /\ (f \in DOMAIN body) = in.body[f].is_some
                      /\ HasSecretField(in.tag) /\ in.body.secret.is_some =>
                            IsHexOf(body["secret"], in.body.secret.value)
            /\ arg = Bolt11Scenario =>
                  /\ "preimage" \notin DOMAIN ser["kind"]["bolt11"]
                  /\ ser["kind"]["bolt11"]["secret"] = <<"d", "e", "a", "d">>

C6_Witness ==
    /\ Done("CliPayment::from")
    /\ arg = Bolt11Scenario
    /\ res.kind.value.body.preimage = None
    /\ res.kind.value.body.secret = Some(<<"d", "e", "a", "d">>)

\* The names each conversion gives to a direction code and to a status code,
\* over all payments.
DirectionNamesGiven ==
    [d \in DirectionCodes |->
        {CliPaymentFrom(p).direction : p \in {q \in Payments : q.direction = d}}]

StatusNamesGiven ==
    [c \in StatusCodes |->
        {CliPaymentFrom(p).status : p \in {q \in Payments : q.status = c}}]

\* C7: direction and status are the textual names of the input's codes, each
\* decided by its own code alone; id, amounts and timestamp are carried
\* through unchanged.
C7_NamesAndCarried ==
    Done("CliPayment::from") =>
        /\ res.direction \in {"INBOUND", "OUTBOUND"}
        /\ res.status \in {"PENDING", "SUCCEEDED", "FAILED"}
        /\ arg.direction = 0 => res.direction = "INBOUND"
        /\ arg.direction = 1 => res.direction = "OUTBOUND"
        /\ arg.status = 0 => res.status = "PENDING"
        /\ arg.status = 1 => res.status = "SUCCEEDED"
        /\ arg.status = 2 => res.status = "FAILED"
        /\ DirectionNamesGiven[arg.direction] = {res.direction}
        /\ StatusNamesGiven[arg.status] = {res.status}
        /\ res.id = arg.id
        /\ res.amount_msat = arg.amount_msat
        /\ res.fee_paid_msat = arg.fee_paid_msat
        /\ res.latest_update_timestamp = arg.latest_update_timestamp
        /\ SerCliPayment(res)["direction"] = res.direction
        /\ SerCliPayment(res)["status"] = res.status

C7_Witness ==
    /\ Done("CliPayment::from")
    /\ arg.direction = 1 /\ arg.status = 1
    /\ res.direction = "OUTBOUND" /\ res.status = "SUCCEEDED"
    /\ res.amount_msat = Some(1000)

\* C8: converting a GetPaymentDetailsResponse gives a payment field that is
\* absent exactly when the response holds no payment, and otherwise the
\* normalization of that payment; it yields a record in both cases.
C8_PaymentDetails ==
    Done("CliGetPaymentDetailsResponse::from") =>
        /\ DOMAIN res = {"payment"}
        /\ res.payment.is_some = arg.payment.is_some
        /\ ("payment" \in DOMAIN SerCliGetPaymentDetailsResponse(res))
              = arg.payment.is_some
        /\ arg.payment.is_some =>
              /\ res.payment.value.id = arg.payment.value.id
              /\ res.payment.value = CliPaymentFrom(arg.payment.value)

C8_Witness ==
    /\ Done("CliGetPaymentDetailsResponse::from")
    /\ arg.payment = None
    /\ res.payment = None

\* C9: converting a CliPaginatedResponse<Payment> into one of CliPayments
\* leaves the token string as it was and keeps the list order, so the result
\* equals the direct conversion of the ListPaymentsResponse holding the same
\* payments and cursor.
C9_RewrapKeepsToken ==
    [][(pc = "done" /\ fn = "CliPaginatedResponse<Payment>::new"
        /\ fn' = "CliPaginatedResponse<Payment>::into") =>
          /\ res'.next_page_token = res.next_page_token
          /\ Len(res'.list) = Len(res.list)
          /\ \A i \in 1..Len(res.list) : res'.list[i].id = res.list[i].id
          /\ res' = CliListPaymentsResponseFrom(
                        [payments |-> arg.list,
                         next_page_token |-> arg.next_page_token])]_vars

C9_Witness ==
    /\ Done("CliPaginatedResponse<Payment>::into")
    /\ Len(arg.list) = 2 /\ arg.list[1].id = "p2" /\ arg.list[2].id = "p1"
    /\ arg.next_page_token = Some([token |-> <<"x">>, index |-> 10])
    /\ res.next_page_token = Some(<<"x", ":", "1", "0">>)
    /\ res.list[1].id = "p2" /\ res.list[2].id = "p1"

\* The cursors of the model that are formatted to each text.
CursorsFormattedTo ==
    [s \in {format_page_token(t) : t \in PageTokens} |->
        {t \in PageTokens : format_page_token(t) = s}]

LastColon(s) ==
    IF \E i \in 1..Len(s) : s[i] = ":"
    THEN CHOOSE i \in 1..Len(s) :
            s[i] = ":" /\ \A j \in (i + 1)..Len(s) : s[j] # ":"
    ELSE 0

\* C10: two cursors that differ in token or in index are formatted to
\* different strings, also for a token that is empty or holds ':'; splitting
\* the string at its last colon gives back the token and the index.
C10_TokenParsesBack ==
    (pc = "done" /\ fn \in NewFns /\ arg.next_page_token.is_some) =>
        LET cursor == arg.next_page_token.value
            s == res.next_page_token.value
            k == LastColon(s)
        IN  /\ CursorsFormattedTo[s] = {cursor}
            /\ k > 0
            /\ SubSeq(s, 1, k - 1) = cursor.token
            /\ IsDecimalOf(SubSeq(s, k + 1, Len(s)), cursor.index)

C10_Witness ==
    /\ pc = "done" /\ fn \in NewFns
    /\ arg.next_page_token = Some([token |-> <<":", "1">>, index |-> 0 - 11])
    /\ res.next_page_token = Some(<<":", "1", ":", "-", "1", "1">>)

====
